---- MODULE Spec2Model ----
(***************************************************************************)
(* Model of topo/modele_pism_inputs.py: the command-line parser and the    *)
(* grid reconstruction of snoop_pism, make_pism_args,                      *)
(* center_to_boundaries, write_gridspec_xy and the skip-if-exists rule of  *)
(* the generated Makefile.                                                 *)
(*                                                                         *)
(* Strings are sequences of one-character strings (Python strings are      *)
(* indexed by character).  Python's 0-based index k is k+1 here.  Real     *)
(* numbers are exact rationals [num, den] in lowest terms; floating-point  *)
(* rounding is not modelled.  nan (0/0 in numpy) is the rational 0/0.      *)
(***************************************************************************)
EXTENDS Integers, Sequences, FiniteSets, TLC

VARIABLES
    pc,         \* position of the running function
    err,        \* the exception that ended it, or "none"
    command,    \* nc.command of the PISM state file
    cmd,        \* the token list re.split returns
    i,          \* the parser's cursor (1-based)
    args,       \* OrderedDict of arguments: a sequence of [key, hasval, val]
    config,     \* pism_config attributes: [hasMx, Mx, My]
    boot,       \* the 'i' file: [hasProj4, proj4, x1, y1]
    xc, yc,     \* cell centers (vals['x_centers'], vals['y_centers'])
    name,       \* vals['name']
    xb,         \* result of center_to_boundaries
    specFile,   \* the grid-spec artifact at spec_fname
    gridDir,    \* grid files of grid_dir: name -> the spec each was made from
    runs,       \* invocations of modele_pism_inputs so far
    margs       \* the OrderedDict make_pism_args builds

vars == <<pc, err, command, cmd, i, args, config, boot, xc, yc, name, xb,
          specFile, gridDir, runs, margs>>

-----------------------------------------------------------------------------
(* Exact rational arithmetic *)

Abs(n) == IF n < 0 THEN -n ELSE n

RECURSIVE GCD(_, _)
GCD(a, b) == IF b = 0 THEN a ELSE GCD(b, a % b)

NaN == [num |-> 0, den |-> 0]

IsNaN(r) == r.den = 0

Rat(n, d) ==
    IF d = 0 THEN NaN
    ELSE LET g == GCD(Abs(n), Abs(d))
             s == IF d < 0 THEN -1 ELSE 1
         IN  [num |-> s * (n \div g), den |-> s * (d \div g)]

RatInt(n) == [num |-> n, den |-> 1]

RatAdd(a, b) ==
    IF IsNaN(a) \/ IsNaN(b) THEN NaN
    ELSE Rat(a.num * b.den + b.num * a.den, a.den * b.den)

RatSub(a, b) ==
    IF IsNaN(a) \/ IsNaN(b) THEN NaN
    ELSE Rat(a.num * b.den - b.num * a.den, a.den * b.den)

RatMul(a, b) ==
    IF IsNaN(a) \/ IsNaN(b) THEN NaN
    ELSE Rat(a.num * b.num, a.den * b.den)

\* numpy true division: a zero divisor gives nan (0/0), not an exception
RatDiv(a, b) ==
    IF IsNaN(a) \/ IsNaN(b) \/ b.num = 0 THEN NaN
    ELSE Rat(a.num * b.den, a.den * b.num)

\* Python int(): truncation toward zero
IntTruncZero(r) ==
    IF r.num >= 0 THEN r.num \div r.den ELSE -((-r.num) \div r.den)

\* the floor of a rational
IntFloor(r) == r.num \div r.den

PyInt(r) == IntTruncZero(r)

-----------------------------------------------------------------------------
(* center_to_boundaries *)

MaxCenters == 4

CenterVals == {RatInt(v) : v \in {-1, 0, 1, 2, 3}} \cup {Rat(1, 2)}

CenterSeqs == UNION {[1..n -> CenterVals] : n \in 0..MaxCenters}

Half == Rat(1, 2)
OneAndHalf == Rat(3, 2)

\* the outer boundaries extrapolated from the wrong pair of centers
center_to_boundaries_swapped(c) ==
    LET n == Len(c)
    IN  [j \in 1..(n + 1) |->
            IF j = 1 THEN RatSub(RatMul(OneAndHalf, c[2]), RatMul(Half, c[1]))
            ELSE IF j = n + 1
                 THEN RatSub(RatMul(OneAndHalf, c[n - 1]), RatMul(Half, c[n]))
                 ELSE RatMul(RatAdd(c[j - 1], c[j]), Half)]

center_to_boundaries(c) ==
    LET n == Len(c)
    IN  [j \in 1..(n + 1) |->
            IF j = 1 THEN RatSub(RatMul(OneAndHalf, c[1]), RatMul(Half, c[2]))
            ELSE IF j = n + 1
                 THEN RatSub(RatMul(OneAndHalf, c[n]), RatMul(Half, c[n - 1]))
                 ELSE RatMul(RatAdd(c[j - 1], c[j]), Half)]

\* xc[0], xc[1] and xc[-2] are read: fewer than two centers is an IndexError
BoundariesRaise(c) == Len(c) < 2

-----------------------------------------------------------------------------
(* Strings, and the OrderedDict of arguments *)

IsSpace(c) == c \in {" ", "\t", "\n"}

IsDigit(c) == c \in {"0", "1", "2", "3", "4", "5", "6", "7", "8", "9"}

K_i == <<"i">>

StartsWithDash(t) == Len(t) >= 1 /\ t[1] = "-"

Tail1(t) == SubSeq(t, 2, Len(t))

\* the j-th smallest element of a set of integers
NthSmallest(S, j) == CHOOSE c \in S : Cardinality({d \in S : d < c}) = j - 1

\* re.split(r'\s+', s): the text between consecutive whitespace runs; leading
\* or trailing whitespace leaves an empty first or last token
ReSplit(s) ==
    LET n == Len(s)
        starts == {k \in 1..n : IsSpace(s[k]) /\ (k = 1 \/ ~IsSpace(s[k - 1]))}
        ends == {k \in 1..n : IsSpace(s[k]) /\ (k = n \/ ~IsSpace(s[k + 1]))}
        from == {0} \cup ends
        to == starts \cup {n + 1}
    IN  [j \in 1..Cardinality(to) |->
            SubSeq(s, NthSmallest(from, j) + 1, NthSmallest(to, j) - 1)]

HasKey(d, k) == \E j \in 1..Len(d) : d[j].key = k

KeyIndex(d, k) == CHOOSE j \in 1..Len(d) : d[j].key = k

Keys(d) == [j \in 1..Len(d) |-> d[j].key]

\* d[k] = v on an OrderedDict: a new key goes last, an old key keeps its place
DictSet(d, k, hasval, val) ==
    LET e == [key |-> k, hasval |-> hasval, val |-> val]
    IN  IF HasKey(d, k) THEN [d EXCEPT ![KeyIndex(d, k)] = e] ELSE Append(d, e)

RECURSIVE DictDel(_, _)
DictDel(d, k) ==
    IF d = <<>> THEN <<>>
    ELSE IF d[1].key = k THEN Tail(d) ELSE <<d[1]>> \o DictDel(Tail(d), k)

-----------------------------------------------------------------------------
(* snoop_pism: reading the state file and parsing its command line *)

MaxWords == 3

W_dash == <<"-">>
W_m1 == <<"-", "1">>
W_m1p5 == <<"-", "1", ".", "5">>
W_m10 == <<"-", "1", "0">>
W_ab == <<"-", "a", "b">>
W_a1 == <<"-", "a", "1">>
W_x == <<"x">>
W_i == <<"-", "i">>

Words == {W_dash, W_m1, W_m1p5, W_m10, W_ab, W_a1, W_x, W_i}

WordSeqs == UNION {[1..n -> Words] : n \in 0..MaxWords}

RECURSIVE JoinWords(_, _)
JoinWords(ws, sep) ==
    IF ws = <<>> THEN <<>>
    ELSE IF Len(ws) = 1 THEN ws[1]
         ELSE ws[1] \o sep \o JoinWords(Tail(ws), sep)

\* "-i in.nc -bootstrap -Mx 76 -ys -100 -o out.nc"
ExampleWords ==
    << <<"-", "i">>, <<"i", "n", ".", "n", "c">>,
       <<"-", "b", "o", "o", "t", "s", "t", "r", "a", "p">>,
       <<"-", "M", "x">>, <<"7", "6">>, <<"-", "y", "s">>,
       <<"-", "1", "0", "0">>, <<"-", "o">>,
       <<"o", "u", "t", ".", "n", "c">> >>

ExampleLine == JoinWords(ExampleWords, <<" ">>)

\* how the words are laid out: bare, as PISM stores a command (a leading
\* blank and a final newline), or with two blanks between words
Layouts ==
    {[lead |-> <<>>, sep |-> <<" ">>, trail |-> <<>>],
     [lead |-> <<" ">>, sep |-> <<" ">>, trail |-> <<"\n">>],
     [lead |-> <<>>, sep |-> <<" ", " ">>, trail |-> <<>>]}

CommandLines ==
    {l.lead \o JoinWords(ws, l.sep) \o l.trail : ws \in WordSeqs, l \in Layouts}
    \cup {ExampleLine}

Configs == {[hasMx |-> h, Mx |-> 2, My |-> 2] : h \in BOOLEAN}

NoBoot == [hasProj4 |-> FALSE, proj4 |-> "", x1 |-> <<>>, y1 |-> <<>>]
\* nothing at spec_fname
NoFile ==
    [exists |-> FALSE, owner |-> "none", xb |-> <<>>, yb |-> <<>>,
     hasInfo |-> FALSE, attrs |-> 0, name |-> <<>>, type |-> "", indices |-> <<>>,
     sproj |-> "", nx |-> 0, ny |-> 0]

InitParse ==
    /\ pc = "read"
    /\ err = "none"
    /\ command \in CommandLines
    /\ cmd = <<>>
    /\ i = 1
    /\ args = <<>>
    /\ config \in Configs
    /\ boot = NoBoot
    /\ xc = <<>> /\ yc = <<>>
    /\ name = <<>>
    /\ xb = <<>>
    /\ specFile = NoFile
    /\ gridDir = <<>>
    /\ runs = 0
    /\ margs = <<>>

\* lines 186-193: the command line is split, then grid.Mx and grid.My are read
ReadState ==
    /\ pc = "read"
    /\ cmd' = ReSplit(command)
    /\ IF config.hasMx
       THEN pc' = "parse" /\ err' = "none"
       ELSE pc' = "failed" /\ err' = "AttributeError"
    /\ i' = 1
    /\ args' = <<>>
    /\ UNCHANGED <<command, config, boot, xc, yc, name, xb, specFile,
                   gridDir, runs, margs>>

\* the test of line 201 on the token after the cursor:
\* "value", "flag", or the exception it raises
NextTokenRole(nxt) ==
    IF ~StartsWithDash(nxt) THEN "value"
    ELSE IF Len(nxt) > 1
         THEN IF Len(nxt) < 3 THEN "IndexError"
              ELSE IF IsDigit(nxt[3]) THEN "value" ELSE "flag"
         ELSE "flag"

\* one iteration of the while loop, lines 199-206
ParseStep ==
    /\ pc = "parse"
    /\ i <= Len(cmd)
    /\ IF StartsWithDash(cmd[i])
       THEN IF i + 1 > Len(cmd)
            THEN /\ pc' = "failed" /\ err' = "IndexError"
                 /\ UNCHANGED <<i, args>>
            ELSE LET role == NextTokenRole(cmd[i + 1])
                 IN  CASE role = "value" ->
                            /\ args' = DictSet(args, Tail1(cmd[i]), TRUE, cmd[i + 1])
                            /\ i' = i + 2
                            /\ UNCHANGED <<pc, err>>
                       [] role = "flag" ->
                            /\ args' = DictSet(args, Tail1(cmd[i]), FALSE, <<>>)
                            /\ i' = i + 1
                            /\ UNCHANGED <<pc, err>>
                       [] OTHER ->
                            /\ pc' = "failed" /\ err' = role
                            /\ UNCHANGED <<i, args>>
       ELSE /\ i' = i + 1
            /\ UNCHANGED <<pc, err, args>>
    /\ UNCHANGED <<command, cmd, config, boot, xc, yc, name, xb, specFile,
                   gridDir, runs, margs>>

\* the while loop ends (line 199)
ParseEnd ==
    /\ pc = "parse"
    /\ i > Len(cmd)
    /\ pc' = "locate"
    /\ UNCHANGED <<err, command, cmd, i, args, config, boot, xc, yc, name, xb,
                   specFile, gridDir, runs, margs>>

\* line 209: args['i'] joined to the run directory
LocateBootstrap ==
    /\ pc = "locate"
    /\ IF ~HasKey(args, K_i)
       THEN pc' = "failed" /\ err' = "KeyError"
       ELSE IF ~args[KeyIndex(args, K_i)].hasval
            THEN pc' = "failed" /\ err' = "TypeError"
            ELSE pc' = "parsed" /\ err' = "none"
    /\ UNCHANGED <<command, cmd, i, args, config, boot, xc, yc, name, xb,
                   specFile, gridDir, runs, margs>>

NextParse == ReadState \/ ParseStep \/ ParseEnd \/ LocateBootstrap

SpecParse == InitParse /\ [][NextParse]_vars

(* Claims about the parser *)

Entry(d, k) == d[KeyIndex(d, k)]

\* the value rule as section 4.2 states it
PolicyConsumes(nxt) ==
    ~StartsWithDash(nxt) \/ (Len(nxt) >= 3 /\ IsDigit(nxt[3]))

EveryDashTokenFollowed ==
    \A j \in 1..Len(cmd) : StartsWithDash(cmd[j]) => j < Len(cmd)

\* C2: with the cursor on a dash token that has a next token, the next token
\* is consumed as the value and the cursor advances by two iff the next token
\* does not begin with '-' or its third character is a digit; otherwise the
\* argument is recorded without a value and the cursor advances by one,
\* without error.
C2_CursorPolicy ==
    [][(/\ pc = "parse"
        /\ i <= Len(cmd)
        /\ EveryDashTokenFollowed
        /\ StartsWithDash(cmd[i]))
       => LET k == Tail1(cmd[i])
              nxt == cmd[i + 1]
          IN  /\ err' = "none"
              /\ pc' = "parse"
              /\ HasKey(args', k)
              /\ IF PolicyConsumes(nxt)
                 THEN /\ i' = i + 2
                      /\ Entry(args', k).hasval
                      /\ Entry(args', k).val = nxt
                 ELSE /\ i' = i + 1
                      /\ ~Entry(args', k).hasval]_vars

AllDigits(t) == \A j \in 1..Len(t) : IsDigit(t[j])

\* '-' then digits, optionally with one decimal point: -100, -1.5, -5
IsNegativeNumber(t) ==
    /\ StartsWithDash(t)
    /\ \/ (Len(t) >= 2 /\ AllDigits(Tail1(t)))
       \/ \E d \in 2..Len(t) :
            /\ t[d] = "."
            /\ AllDigits(SubSeq(t, 2, d - 1))
            /\ AllDigits(SubSeq(t, d + 1, Len(t)))
            /\ Len(t) >= 3

ExampleArgs ==
    << [key |-> <<"i">>, hasval |-> TRUE, val |-> <<"i", "n", ".", "n", "c">>],
       [key |-> <<"b", "o", "o", "t", "s", "t", "r", "a", "p">>,
        hasval |-> FALSE, val |-> <<>>],
       [key |-> <<"M", "x">>, hasval |-> TRUE, val |-> <<"7", "6">>],
       [key |-> <<"y", "s">>, hasval |-> TRUE, val |-> <<"-", "1", "0", "0">>],
       [key |-> <<"o">>, hasval |-> TRUE,
        val |-> <<"o", "u", "t", ".", "n", "c">>] >>

\* C3: a negative number after a dash token is stored as that argument's
\* value, never taken for a new flag; the example line of section 8 parses
\* to {i, bootstrap: None, Mx, ys: -100, o} in command-line order.
C3_NegativeNumberIsValue ==
    [][/\ (/\ pc = "parse"
           /\ i < Len(cmd)
           /\ StartsWithDash(cmd[i])
           /\ IsNegativeNumber(cmd[i + 1]))
          => /\ err' = "none"
             /\ i' = i + 2
             /\ HasKey(args', Tail1(cmd[i]))
             /\ Entry(args', Tail1(cmd[i])).hasval
             /\ Entry(args', Tail1(cmd[i])).val = cmd[i + 1]
       /\ (command = ExampleLine /\ pc = "parse" /\ pc' = "locate")
          => args = ExampleArgs]_vars

NotEmptyTok(t) == t # <<>>

\* the command line split on whitespace runs: its maximal non-blank words
CommandWords == SelectSeq(ReSplit(command), NotEmptyTok)

\* the last word is a dash token that the policy cannot take as a value
EndsWithArgumentToken ==
    /\ CommandWords # <<>>
    /\ LET w == CommandWords[Len(CommandWords)]
       IN  StartsWithDash(w) /\ ~PolicyConsumes(w)

\* C10: a command line that ends with a dash token makes parsing fail; the
\* parse loop never completes with that flag recorded.
C10_TrailingDashFails ==
    (config.hasMx /\ EndsWithArgumentToken) => pc \notin {"locate", "parsed"}

-----------------------------------------------------------------------------
(* center_to_boundaries applied to a sequence of centers *)

InitBound ==
    /\ pc = "call"
    /\ err = "none"
    /\ xc \in CenterSeqs
    /\ xb = <<>>
    /\ command = <<>> /\ cmd = <<>> /\ i = 1 /\ args = <<>>
    /\ config = [hasMx |-> TRUE, Mx |-> 2, My |-> 2]
    /\ boot = NoBoot
    /\ yc = <<>>
    /\ name = <<>>
    /\ specFile = NoFile
    /\ gridDir = <<>>
    /\ runs = 0
    /\ margs = <<>>

\* lines 271-276
CallBoundaries ==
    /\ pc = "call"
    /\ IF BoundariesRaise(xc)
       THEN pc' = "failed" /\ err' = "IndexError" /\ xb' = xb
       ELSE pc' = "returned" /\ err' = "none" /\ xb' = center_to_boundaries(xc)
    /\ UNCHANGED <<command, cmd, i, args, config, boot, xc, yc, name,
                   specFile, gridDir, runs, margs>>

NextBound == CallBoundaries

SpecBound == InitBound /\ [][NextBound]_vars

Twice(r) == RatAdd(r, r)
Thrice(r) == RatAdd(r, Twice(r))

ExampleCenters == <<RatInt(0), RatInt(1), RatInt(2), RatInt(3)>>
ExampleBoundaries == <<Rat(-1, 2), Rat(1, 2), Rat(3, 2), Rat(5, 2), Rat(7, 2)>>

\* C1: for N >= 2 centers the result has N+1 values, the first is
\* 1.5*c[0] - 0.5*c[1], the last is 1.5*c[N-1] - 0.5*c[N-2], every interior
\* one is the midpoint of its two flanking centers, and centers [0,1,2,3]
\* give [-0.5, 0.5, 1.5, 2.5, 3.5].
C1_Boundaries ==
    (Len(xc) >= 2 /\ pc # "call") =>
        LET n == Len(xc)
        IN  /\ pc = "returned"
            /\ Len(xb) = n + 1
            /\ Twice(xb[1]) = RatSub(Thrice(xc[1]), xc[2])
            /\ Twice(xb[n + 1]) = RatSub(Thrice(xc[n]), xc[n - 1])
            /\ \A j \in 1..(n - 1) : Twice(xb[j + 1]) = RatAdd(xc[j], xc[j + 1])
            /\ (xc = ExampleCenters => xb = ExampleBoundaries)

C1_Witness ==
    pc = "returned" /\ xc = ExampleCenters /\ xb = ExampleBoundaries

-----------------------------------------------------------------------------
(* make_pism_args *)

\* str.split(sep) for a one-character sep: empty entries are kept, and ''
\* splits to ['']
StrSplit(s, sep) ==
    LET n == Len(s)
        cuts == {k \in 1..n : s[k] = sep}
        from == {0} \cup cuts
        to == cuts \cup {n + 1}
    IN  [j \in 1..Cardinality(to) |->
            SubSeq(s, NthSmallest(from, j) + 1, NthSmallest(to, j) - 1)]

RECURSIVE StrJoin(_, _)
StrJoin(l, sep) ==
    IF l = <<>> THEN <<>>
    ELSE IF Len(l) = 1 THEN l[1]
         ELSE l[1] \o <<sep>> \o StrJoin(Tail(l), sep)

\* os.path.join(a, b)
PathJoin(a, b) ==
    IF b # <<>> /\ b[1] = "/" THEN b
    ELSE IF a = <<>> \/ a[Len(a)] = "/" THEN a \o b
         ELSE a \o <<"/">> \o b

RECURSIVE NormComps(_, _, _)
NormComps(comps, rooted, new) ==
    IF comps = <<>> THEN new
    ELSE LET c == comps[1]
             rest == Tail(comps)
         IN  IF c = <<>> \/ c = <<".">> THEN NormComps(rest, rooted, new)
             ELSE IF \/ c # <<".", ".">>
                     \/ (~rooted /\ new = <<>>)
                     \/ (new # <<>> /\ new[Len(new)] = <<".", ".">>)
                  THEN NormComps(rest, rooted, Append(new, c))
                  ELSE IF new # <<>>
                       THEN NormComps(rest, rooted, SubSeq(new, 1, Len(new) - 1))
                       ELSE NormComps(rest, rooted, new)

\* os.path.normpath(p) (posixpath)
NormPath(p) ==
    IF p = <<>> THEN <<".">>
    ELSE LET rooted == p[1] = "/"
             slashes == IF rooted /\ Len(p) >= 2 /\ p[2] = "/"
                           /\ ~(Len(p) >= 3 /\ p[3] = "/")
                        THEN <<"/", "/">>
                        ELSE IF rooted THEN <<"/">> ELSE <<>>
             body == StrJoin(NormComps(StrSplit(p, "/"), rooted, <<>>), "/")
             out == slashes \o body
         IN  IF out = <<>> THEN <<".">> ELSE out

\* line 258: os.path.normpath(os.path.join(pism_dir, args[key]))
AbsPath(dir, p) == NormPath(PathJoin(dir, p))

K_bootstrap == <<"b", "o", "o", "t", "s", "t", "r", "a", "p">>
K_Mx == <<"M", "x">>
K_My == <<"M", "y">>
K_Mz == <<"M", "z">>
K_Mbz == <<"M", "b", "z">>
K_z_spacing == <<"z", "_", "s", "p", "a", "c", "i", "n", "g">>
K_Lz == <<"L", "z">>
K_Lbz == <<"L", "b", "z">>
K_ys == <<"y", "s">>
K_ye == <<"y", "e">>
K_surface_given_file ==
    <<"s", "u", "r", "f", "a", "c", "e", "_", "g", "i", "v", "e", "n", "_",
      "f", "i", "l", "e">>
K_ocean_kill_file ==
    <<"o", "c", "e", "a", "n", "_", "k", "i", "l", "l", "_", "f", "i", "l",
      "e">>
K_o == <<"o">>

\* lines 247-249
BootstrapOnly ==
    << K_bootstrap, K_Mx, K_My, K_Mz, K_Mbz,
       K_z_spacing, K_Lz, K_Lbz, K_ys, K_ye >>

PathKeys == << K_i, K_surface_given_file, K_ocean_kill_file >>

K_extra_vars == <<"e", "x", "t", "r", "a", "_", "v", "a", "r", "s">>

V_climatic_mass_balance ==
    <<"c", "l", "i", "m", "a", "t", "i", "c", "_", "m", "a", "s", "s", "_",
      "b", "a", "l", "a", "n", "c", "e">>
V_ice_surface_temp ==
    <<"i", "c", "e", "_", "s", "u", "r", "f", "a", "c", "e", "_", "t", "e",
      "m", "p">>
V_diffusivity == <<"d", "i", "f", "f", "u", "s", "i", "v", "i", "t", "y">>
V_temppabase == <<"t", "e", "m", "p", "p", "a", "b", "a", "s", "e">>
V_tempicethk_basal ==
    <<"t", "e", "m", "p", "i", "c", "e", "t", "h", "k", "_", "b", "a", "s",
      "a", "l">>
V_bmelt == <<"b", "m", "e", "l", "t">>
V_tillwat == <<"t", "i", "l", "l", "w", "a", "t">>
V_csurf == <<"c", "s", "u", "r", "f">>
V_mask == <<"m", "a", "s", "k">>
V_thk == <<"t", "h", "k">>
V_topg == <<"t", "o", "p", "g">>
V_usurf == <<"u", "s", "u", "r", "f">>

\* line 263, in declared order
Vocab ==
    <<V_climatic_mass_balance, V_ice_surface_temp, V_diffusivity, V_temppabase,
      V_tempicethk_basal, V_bmelt, V_tillwat, V_csurf,
      V_mask, V_thk, V_topg, V_usurf>>

InSeq(l, e) == \E j \in 1..Len(l) : l[j] = e

RECURSIVE DelAll(_, _)
DelAll(d, ks) == IF ks = <<>> THEN d ELSE DelAll(DictDel(d, ks[1]), Tail(ks))

RECURSIVE Missing(_, _)
Missing(l, voc) ==
    IF voc = <<>> THEN <<>>
    ELSE IF InSeq(l, voc[1]) THEN Missing(l, Tail(voc))
         ELSE <<voc[1]>> \o Missing(l, Tail(voc))

\* every vocabulary entry appended, present or not
ExtendVarsAll(l) == l \o Vocab

\* lines 262-265
ExtendVars(l) == l \o Missing(l, Vocab)

MaxEVLen == 3

EVPieces == {<<",">>, V_thk, <<"x">>}

RECURSIVE Flatten(_)
Flatten(ps) == IF ps = <<>> THEN <<>> ELSE ps[1] \o Flatten(Tail(ps))

\* extra_vars values: up to MaxEVLen names and commas in a row
EVInputs == {Flatten(ps) : ps \in UNION {[1..n -> EVPieces] : n \in 0..MaxEVLen}}

PismDir == <<"/", "run">>

IVals ==
    { <<"r", "e", "l", "/", "i", "n", ".", "n", "c">>,
      <<"/", "a", "b", "s", "/", ".", "/", "i", "n", ".", "n", "c">>,
      <<".", ".", "/", "d", "/", "/", "i", "n", ".", "n", "c">> }

BaseOrders ==
    { << K_bootstrap, K_Mx, K_i, K_extra_vars,
         K_ocean_kill_file, K_surface_given_file >>,
      << K_i, K_surface_given_file, K_ocean_kill_file,
         K_o, K_extra_vars, K_ys >> }

\* the value an argument of the bootstrap command line has, by its key
ValueChoices(k) ==
    IF k = K_i
    THEN {[hasval |-> TRUE, val |-> v] : v \in IVals}
         \cup {[hasval |-> FALSE, val |-> <<>>]}
    ELSE IF k = K_extra_vars
         THEN {[hasval |-> TRUE, val |-> v] : v \in EVInputs}
              \cup {[hasval |-> FALSE, val |-> <<>>]}
         ELSE IF k = K_bootstrap
              THEN {[hasval |-> FALSE, val |-> <<>>]}
              ELSE IF k \in {K_Mx, K_ys}
                   THEN {[hasval |-> TRUE, val |-> <<"7", "6">>]}
                   ELSE {[hasval |-> TRUE, val |-> <<k[1], ".", "n", "c">>]}

RECURSIVE SubSeqBy(_, _, _)
SubSeqBy(b, mask, k) ==
    IF k > Len(b) THEN <<>>
    ELSE IF k \in mask THEN <<b[k]>> \o SubSeqBy(b, mask, k + 1)
         ELSE SubSeqBy(b, mask, k + 1)

KeyOrders ==
    UNION {{SubSeqBy(b, m, 1) : m \in SUBSET (1..Len(b))} : b \in BaseOrders}

ArgumentMaps ==
    UNION {
      {[j \in 1..Len(ks) |->
          [key |-> ks[j],
           hasval |-> (IF ks[j] = K_i THEN iv.hasval
                       ELSE IF ks[j] = K_extra_vars THEN ev.hasval
                       ELSE (CHOOSE c \in ValueChoices(ks[j]) : TRUE).hasval),
           val |-> (IF ks[j] = K_i THEN iv.val
                    ELSE IF ks[j] = K_extra_vars THEN ev.val
                    ELSE (CHOOSE c \in ValueChoices(ks[j]) : TRUE).val)]] :
         iv \in (IF InSeq(ks, K_i) THEN ValueChoices(K_i)
                 ELSE {[hasval |-> FALSE, val |-> <<>>]}),
         ev \in (IF InSeq(ks, K_extra_vars) THEN ValueChoices(K_extra_vars)
                 ELSE {[hasval |-> FALSE, val |-> <<>>]})} :
      ks \in KeyOrders}

InitArgs ==
    /\ pc = "mk_start"
    /\ err = "none"
    /\ args \in ArgumentMaps
    /\ margs = <<>>
    /\ i = 1
    /\ command = <<>> /\ cmd = <<>>
    /\ config = [hasMx |-> TRUE, Mx |-> 2, My |-> 2]
    /\ boot = NoBoot
    /\ xc = <<>> /\ yc = <<>>
    /\ name = <<>>
    /\ xb = <<>>
    /\ specFile = NoFile
    /\ gridDir = <<>>
    /\ runs = 0

\* lines 246-253: a copy of pism['args'] without the bootstrap-only keys
DeleteBootstrapOnly ==
    /\ pc = "mk_start"
    /\ margs' = DelAll(args, BootstrapOnly)
    /\ i' = 1
    /\ pc' = "mk_paths"
    /\ UNCHANGED <<err, command, cmd, args, config, boot, xc, yc, name, xb,
                   specFile, gridDir, runs>>

\* one iteration of the loop of lines 257-258
AbsolutizePath ==
    /\ pc = "mk_paths"
    /\ i <= Len(PathKeys)
    /\ LET k == PathKeys[i]
       IN  IF ~HasKey(margs, k)
           THEN pc' = "failed" /\ err' = "KeyError" /\ UNCHANGED <<margs, i>>
           ELSE IF ~margs[KeyIndex(margs, k)].hasval
                THEN pc' = "failed" /\ err' = "TypeError" /\ UNCHANGED <<margs, i>>
                ELSE /\ margs' = DictSet(margs, k, TRUE,
                                    AbsPath(PismDir, margs[KeyIndex(margs, k)].val))
                     /\ i' = i + 1
                     /\ UNCHANGED <<pc, err>>
    /\ UNCHANGED <<command, cmd, args, config, boot, xc, yc, name, xb,
                   specFile, gridDir, runs>>

\* lines 260-268
ExtendExtraVars ==
    /\ pc = "mk_paths"
    /\ i > Len(PathKeys)
    /\ IF ~HasKey(margs, K_extra_vars)
       THEN pc' = "failed" /\ err' = "KeyError" /\ margs' = margs
       ELSE IF ~margs[KeyIndex(margs, K_extra_vars)].hasval
            THEN pc' = "failed" /\ err' = "AttributeError" /\ margs' = margs
            ELSE /\ margs' = DictSet(margs, K_extra_vars, TRUE,
                     StrJoin(ExtendVars(
                         StrSplit(margs[KeyIndex(margs, K_extra_vars)].val, ",")),
                         ","))
                 /\ pc' = "mk_done" /\ err' = "none"
    /\ UNCHANGED <<i, command, cmd, args, config, boot, xc, yc, name, xb,
                   specFile, gridDir, runs>>

NextArgs == DeleteBootstrapOnly \/ AbsolutizePath \/ ExtendExtraVars

SpecArgs == InitArgs /\ [][NextArgs]_vars

(* Claims about make_pism_args *)

NotBootstrapOnly(k) == ~InSeq(BootstrapOnly, k)

MkEnded == pc \in {"mk_done", "failed"}

\* C5: on every ArgumentMap that holds `i` and `extra_vars` make_pism_args
\* succeeds; the result's keys are the input's keys without the
\* bootstrap-only keys, in the input's order, and `i` is the normalized
\* absolute path under the directory.
C5_SucceedsWithIAndExtraVars ==
    (/\ MkEnded
     /\ HasKey(args, K_i) /\ Entry(args, K_i).hasval
     /\ HasKey(args, K_extra_vars) /\ Entry(args, K_extra_vars).hasval)
    => /\ pc = "mk_done"
       /\ Keys(margs) = SelectSeq(Keys(args), NotBootstrapOnly)
       /\ Entry(margs, K_i).val = AbsPath(PismDir, Entry(args, K_i).val)

Count(l, e) == Cardinality({j \in 1..Len(l) : l[j] = e})

NoDuplicates(l) == \A j, k \in 1..Len(l) : l[j] = l[k] => j = k

EVIn == StrSplit(Entry(args, K_extra_vars).val, ",")
EVOut == StrSplit(Entry(margs, K_extra_vars).val, ",")

VocabNotIn(l) == SelectSeq(Vocab, LAMBDA v : \A j \in 1..Len(l) : l[j] # v)

\* C6 as stated: the output list is the input entries followed by the
\* vocabulary entries the input lacks, in declared order, and the output list
\* holds no duplicate entry.
C6_NoDuplicatesInOutput ==
    pc = "mk_done" =>
        LET inL == EVIn
            outL == EVOut
        IN  /\ outL = inL \o VocabNotIn(inL)
            /\ NoDuplicates(outL)

\* C6 (amended): the output list is the input entries in their order followed
\* by exactly the vocabulary entries the input lacks, in declared order; every
\* vocabulary entry occurs in the output, none already present is appended
\* again, and an entry occurs twice in the output only if it occurs twice in
\* the input.
C6_ExtraVarsExtended ==
    pc = "mk_done" =>
        LET inL == EVIn
            outL == EVOut
        IN  /\ outL = inL \o VocabNotIn(inL)
            /\ \A j \in 1..Len(Vocab) :
                  /\ InSeq(outL, Vocab[j])
                  /\ Count(outL, Vocab[j]) =
                        IF InSeq(inL, Vocab[j]) THEN Count(inL, Vocab[j]) ELSE 1
            /\ \A j \in 1..Len(outL) :
                  Count(outL, outL[j]) > 1 => Count(inL, outL[j]) > 1

\* an input that names a vocabulary entry twice has been extended
C6_Witness ==
    /\ pc = "mk_done"
    /\ Entry(args, K_extra_vars).val = <<"t", "h", "k", ",", "t", "h", "k">>
    /\ Len(EVOut) = 13

-----------------------------------------------------------------------------
(* snoop_pism: the grid of the bootstrap file, resampled and named *)

MaxM == 4
MaxNative == 4
MetersPerKm == 1000

Ramp(start, step, n) == [k \in 1..n |-> RatInt(start + step * (k - 1))]

NativeX ==
    {Ramp(s, d, n) : s \in {0, 1000}, d \in {1000, -1000, 1500, 400},
                     n \in 1..MaxNative}
    \cup {<<>>, <<RatInt(0), RatInt(500), RatInt(3000)>>}

NativeY ==
    {Ramp(0, 1000, MaxNative), Ramp(3000, -1000, MaxNative), Ramp(0, 2600, 2)}

BootFiles ==
    {[hasProj4 |-> TRUE, proj4 |-> "+proj=stere", x1 |-> x, y1 |-> y] :
        x \in NativeX, y \in NativeY}
    \cup {[hasProj4 |-> FALSE, proj4 |-> "", x1 |-> Ramp(0, 1000, 2),
           y1 |-> Ramp(0, 1000, 2)]}

GridConfigs ==
    {[hasMx |-> TRUE, Mx |-> mx, My |-> my] : mx \in 1..MaxM, my \in 1..MaxM}
    \cup {[hasMx |-> FALSE, Mx |-> 0, My |-> 0]}

\* " pismr -i pism_Greenland_5km.nc -bootstrap\n"
Cmd_greenland ==
    <<" ", "p", "i", "s", "m", "r", " ", "-", "i", " ", "p", "i", "s", "m",
      "_", "G", "r", "e", "e", "n", "l", "a", "n", "d", "_", "5", "k", "m",
      ".", "n", "c", " ", "-", "b", "o", "o", "t", "s", "t", "r", "a", "p",
      "\n">>

\* " pismr -bootstrap -i d/g20.nc\n"
Cmd_other ==
    <<" ", "p", "i", "s", "m", "r", " ", "-", "b", "o", "o", "t", "s", "t",
      "r", "a", "p", " ", "-", "i", " ", "d", "/", "g", "2", "0", ".", "n",
      "c", "\n">>

GridCommands == {Cmd_greenland, Cmd_other}

S_pism_Greenland == <<"p", "i", "s", "m", "_", "G", "r", "e", "e", "n", "l", "a", "n", "d">>
S_pism_g == <<"p", "i", "s", "m", "_", "g">>
S_km_ == <<"k", "m", "_">>

\* a grid-spec file a previous invocation left complete
OldFile ==
    [exists |-> TRUE, owner |-> "old", xb |-> <<RatInt(0), RatInt(1), RatInt(2)>>,
     yb |-> <<RatInt(0), RatInt(1), RatInt(2)>>, hasInfo |-> TRUE, attrs |-> 6,
     name |-> <<"o", "l", "d">>, type |-> "XY", indices |-> <<1, 0>>,
     sproj |-> "+proj=stere", nx |-> 2, ny |-> 2]

InitGrid ==
    /\ pc = "read"
    /\ err = "none"
    /\ command \in GridCommands
    /\ cmd = <<>>
    /\ i = 1
    /\ args = <<>>
    /\ config \in GridConfigs
    /\ boot \in BootFiles
    /\ xc = <<>> /\ yc = <<>>
    /\ name = <<>>
    /\ xb = <<>>
    /\ specFile \in {NoFile, OldFile}
    /\ gridDir = <<>>
    /\ runs = 0
    /\ margs = <<>>

\* lines 210-213: the spatial reference and the native centers are read
ReadBootstrap ==
    /\ pc = "parsed"
    /\ IF boot.hasProj4
       THEN pc' = "opened" /\ err' = "none"
       ELSE pc' = "failed" /\ err' = "AttributeError"
    /\ UNCHANGED <<command, cmd, i, args, config, boot, xc, yc, name, xb,
                   specFile, gridDir, runs, margs>>

\* the native extent divided by the number of points, not of intervals
ResampleByCount(c5, M) ==
    [k \in 1..M |->
        RatAdd(c5[1], RatDiv(RatMul(RatSub(c5[Len(c5)], c5[1]), RatInt(k - 1)),
                             RatInt(M))) ]

\* lines 216-217: xc5[0] + (xc5[-1]-xc5[0]) * ix / (Mx-1) for ix in range(0,Mx)
Resample(c5, M) ==
    [k \in 1..M |->
        RatAdd(c5[1], RatDiv(RatMul(RatSub(c5[Len(c5)], c5[1]), RatInt(k - 1)),
                             RatInt(M - 1))) ]

\* lines 216-221; xc5[0] of an empty array is an IndexError
ResampleCenters ==
    /\ pc = "opened"
    /\ IF boot.x1 = <<>> \/ boot.y1 = <<>>
       THEN pc' = "failed" /\ err' = "IndexError" /\ UNCHANGED <<xc, yc>>
       ELSE /\ xc' = Resample(boot.x1, config.Mx)
            /\ yc' = Resample(boot.y1, config.My)
            /\ pc' = "resampled" /\ err' = "none"
    /\ UNCHANGED <<command, cmd, i, args, config, boot, name, xb,
                   specFile, gridDir, runs, margs>>

DigitChars == <<"0", "1", "2", "3", "4", "5", "6", "7", "8", "9">>

RECURSIVE NatStr(_)
NatStr(n) ==
    IF n < 10 THEN <<DigitChars[n + 1]>>
    ELSE NatStr(n \div 10) \o <<DigitChars[(n % 10) + 1]>>

\* '{}'.format(n) of an integer
IntStr(n) == IF n < 0 THEN <<"-">> \o NatStr(-n) ELSE NatStr(n)

IsPrefix(p, t) == Len(t) >= Len(p) /\ SubSeq(t, 1, Len(p)) = p

\* os.path.split(p)[1]: what follows the last "/"
Basename(p) ==
    LET slashes == {k \in 1..Len(p) : p[k] = "/"}
        last == IF slashes = {} THEN 0
                ELSE CHOOSE k \in slashes : \A m \in slashes : m <= k
    IN  SubSeq(p, last + 1, Len(p))

\* os.path.splitext(f)[0]: the last dot starts the extension, unless only
\* dots precede it
Stem(f) ==
    LET dots == {k \in 1..Len(f) : f[k] = "."}
        last == IF dots = {} THEN 0
                ELSE CHOOSE k \in dots : \A m \in dots : m <= k
    IN  IF last = 0 \/ \A k \in 1..(last - 1) : f[k] = "." THEN f
        ELSE SubSeq(f, 1, last - 1)

\* line 221
index_order == <<1, 0>>

\* lines 224-225: int(.5 + (xc[1] - xc[0]) / 1000.)
ResolutionKm(c) ==
    PyInt(RatAdd(Half, RatDiv(RatSub(c[2], c[1]), RatInt(MetersPerKm))))

\* lines 226-229
ResToken(idx, idy) ==
    IF idx = idy THEN IntStr(idx) ELSE IntStr(idx) \o <<"_">> \o IntStr(idy)

\* lines 231-235
GridName(iname, idx, idy) ==
    IF IsPrefix(S_pism_Greenland, iname)
    THEN S_pism_g \o ResToken(idx, idy) \o S_km_
         \o IntStr(index_order[1]) \o IntStr(index_order[2])
    ELSE Stem(iname) \o ResToken(idx, idy) \o S_km_ \o IntStr(index_order[1])

\* lines 223-237; xc[1] of a one-point axis is an IndexError
NameGrid ==
    /\ pc = "resampled"
    /\ IF Len(xc) < 2 \/ Len(yc) < 2
       THEN pc' = "failed" /\ err' = "IndexError" /\ name' = name
       ELSE /\ name' = GridName(Basename(Entry(args, K_i).val),
                                ResolutionKm(xc), ResolutionKm(yc))
            /\ pc' = "snooped" /\ err' = "none"
    /\ UNCHANGED <<command, cmd, i, args, config, boot, xc, yc, xb,
                   specFile, gridDir, runs, margs>>

-----------------------------------------------------------------------------
(* write_gridspec_xy *)

InfoAttrs == <<"name", "type", "indices", "sproj", "nx", "ny">>

\* the file netCDF4.Dataset(spec_fname, 'w') creates, or truncates to
NewFile == [NoFile EXCEPT !.exists = TRUE, !.owner = "this"]

CompleteArtifact(f) ==
    /\ f.exists
    /\ f.xb # <<>> /\ f.yb # <<>>
    /\ f.hasInfo /\ f.attrs = Len(InfoAttrs)

\* line 282: the file is created (an existing one is truncated) at once
OpenSpec ==
    /\ pc = "snooped"
    /\ specFile' = NewFile
    /\ pc' = "w_x"
    /\ UNCHANGED <<err, command, cmd, i, args, config, boot, xc, yc, name, xb,
                   gridDir, runs, margs>>

\* lines 283-287
WriteX ==
    /\ pc = "w_x"
    /\ IF BoundariesRaise(xc)
       THEN pc' = "failed" /\ err' = "IndexError" /\ UNCHANGED <<xb, specFile>>
       ELSE /\ xb' = center_to_boundaries(xc)
            /\ specFile' = [specFile EXCEPT !.xb = xb']
            /\ pc' = "w_y" /\ err' = "none"
    /\ UNCHANGED <<command, cmd, i, args, config, boot, xc, yc, name,
                   gridDir, runs, margs>>

\* lines 289-293
WriteY ==
    /\ pc = "w_y"
    /\ IF BoundariesRaise(yc)
       THEN pc' = "failed" /\ err' = "IndexError" /\ UNCHANGED <<xb, specFile>>
       ELSE /\ xb' = center_to_boundaries(yc)
            /\ specFile' = [specFile EXCEPT !.yb = xb']
            /\ pc' = "w_info" /\ err' = "none"
    /\ UNCHANGED <<command, cmd, i, args, config, boot, xc, yc, name,
                   gridDir, runs, margs>>

\* line 295
CreateInfo ==
    /\ pc = "w_info"
    /\ specFile' = [specFile EXCEPT !.hasInfo = TRUE]
    /\ pc' = "w_attr"
    /\ UNCHANGED <<err, command, cmd, i, args, config, boot, xc, yc, name, xb,
                   gridDir, runs, margs>>

\* lines 296-301, one attribute at a time
SetInfoAttr ==
    /\ pc = "w_attr"
    /\ specFile.attrs < Len(InfoAttrs)
    /\ LET a == InfoAttrs[specFile.attrs + 1]
           v == CASE a = "name" -> name
                  [] a = "type" -> "XY"
                  [] a = "indices" -> index_order
                  [] a = "sproj" -> boot.proj4
                  [] a = "nx" -> Len(xc)
                  [] a = "ny" -> Len(yc)
       IN  specFile' = [specFile EXCEPT ![a] = v, !.attrs = @ + 1]
    /\ UNCHANGED <<pc, err, command, cmd, i, args, config, boot, xc, yc, name,
                   xb, gridDir, runs, margs>>

\* the with block of line 282 ends: the file is closed
CloseSpec ==
    /\ pc = "w_attr"
    /\ specFile.attrs = Len(InfoAttrs)
    /\ pc' = "written"
    /\ UNCHANGED <<err, command, cmd, i, args, config, boot, xc, yc, name, xb,
                   specFile, gridDir, runs, margs>>

InWrite == pc \in {"w_x", "w_y", "w_info", "w_attr"}

\* an I/O error raised by a netCDF4 call: opening fails and creates nothing,
\* or a later call fails and the with block closes the file as it stands
WriteFails ==
    /\ pc = "snooped" \/ InWrite
    /\ pc' = "failed"
    /\ err' = "OSError"
    /\ UNCHANGED <<command, cmd, i, args, config, boot, xc, yc, name, xb,
                   specFile, gridDir, runs, margs>>

\* main(), lines 387-388: snoop_pism, then write_gridspec_xy
NextGrid ==
    \/ ReadState \/ ParseStep \/ ParseEnd \/ LocateBootstrap
    \/ ReadBootstrap \/ ResampleCenters \/ NameGrid
    \/ OpenSpec \/ WriteX \/ WriteY \/ CreateInfo \/ SetInfoAttr \/ CloseSpec
    \/ WriteFails

SpecGrid == InitGrid /\ [][NextGrid]_vars

(* Claims about the grid *)

EvenlySpaced(c) ==
    \A k \in 2..(Len(c) - 1) :
        RatSub(c[k + 1], c[k]) = RatSub(c[k], c[k - 1])

\* x[k] = first + (last - first) * k / (M - 1), with M - 1 multiplied out
OnNativeExtent(c, c5, M) ==
    /\ Len(c) = M
    /\ \A k \in 0..(M - 1) :
          RatMul(RatSub(c[k + 1], c5[1]), RatInt(M - 1))
            = RatMul(RatSub(c5[Len(c5)], c5[1]), RatInt(k))
    /\ c[1] = c5[1]
    /\ c[M] = c5[Len(c5)]
    /\ (Len(c5) = M /\ EvenlySpaced(c5)) => c = c5

\* C4: for Mx >= 2 (My >= 2) the resampled centers are exactly Mx (My) values
\* x[k] = x_native[0] + (x_native[-1] - x_native[0]) * k / (Mx - 1); the first
\* and last equal the first and last native centers, and evenly spaced native
\* centers resampled to their own count come back unchanged.
C4_Resampled ==
    (xc # <<>> /\ yc # <<>>) =>
        /\ config.Mx >= 2 => OnNativeExtent(xc, boot.x1, config.Mx)
        /\ config.My >= 2 => OnNativeExtent(yc, boot.y1, config.My)

C4_Witness ==
    /\ pc = "snooped"
    /\ config.Mx = 4
    /\ boot.x1 = Ramp(0, 1000, 4)
    /\ xc = boot.x1
    /\ config.My = 3
    /\ yc = <<RatInt(3000), RatInt(1500), RatInt(0)>>

\* the integers nearest to r (two of them when r lies half way)
Nearest(r) ==
    {n \in {IntFloor(r), IntFloor(r) + 1} : 2 * Abs(r.num - n * r.den) <= r.den}

StepKm(c) == RatDiv(RatSub(c[2], c[1]), RatInt(MetersPerKm))

\* C7: the per-axis resolution is (center[1] - center[0]) / 1000 rounded to
\* the nearest integer, for ascending and descending axes; the token is that
\* integer when x and y agree and "{x}_{y}" otherwise; the name is
\* "pism_g{res}km_10" for the recognized prefix and "{stem}{res}km_1"
\* otherwise.
C7_NameFromRoundedResolution ==
    pc = "snooped" =>
        \E rx \in Nearest(StepKm(xc)), ry \in Nearest(StepKm(yc)) :
            LET res == IF rx = ry THEN IntStr(rx)
                       ELSE IntStr(rx) \o <<"_">> \o IntStr(ry)
                iname == Basename(Entry(args, K_i).val)
            IN  name = IF IsPrefix(S_pism_Greenland, iname)
                       THEN S_pism_g \o res \o S_km_ \o <<"1", "0">>
                       ELSE Stem(iname) \o res \o S_km_ \o <<"1">>

\* C9: when an invocation has ended, normally or by a failure, the target
\* path holds no artifact written by this invocation or a complete one.
C9_AllOrNothing ==
    pc \in {"failed", "written"} =>
        (specFile.owner # "this" \/ CompleteArtifact(specFile))

-----------------------------------------------------------------------------
(* modele_pism_inputs, run for one PISM state file after another *)

MaxRuns == 2

\* " pismr -i pism_Greenland_5km.nc -bootstrap -Mx 4 -surface_given_file s.nc -ocean_kill_file s.nc -extra_vars thk\n"
RunCmd_greenland ==
    <<" ", "p", "i", "s", "m", "r", " ", "-", "i", " ", "p", "i", "s", "m",
      "_", "G", "r", "e", "e", "n", "l", "a", "n", "d", "_", "5", "k", "m",
      ".", "n", "c", " ", "-", "b", "o", "o", "t", "s", "t", "r", "a", "p",
      " ", "-", "M", "x", " ", "4", " ", "-", "s", "u", "r", "f", "a", "c",
      "e", "_", "g", "i", "v", "e", "n", "_", "f", "i", "l", "e", " ", "s",
      ".", "n", "c", " ", "-", "o", "c", "e", "a", "n", "_", "k", "i", "l",
      "l", "_", "f", "i", "l", "e", " ", "s", ".", "n", "c", " ", "-", "e",
      "x", "t", "r", "a", "_", "v", "a", "r", "s", " ", "t", "h", "k", "\n">>

\* " pismr -i g20.nc -surface_given_file s.nc -ocean_kill_file s.nc -extra_vars thk,mask -o out.nc\n"
RunCmd_other ==
    <<" ", "p", "i", "s", "m", "r", " ", "-", "i", " ", "g", "2", "0", ".",
      "n", "c", " ", "-", "s", "u", "r", "f", "a", "c", "e", "_", "g", "i",
      "v", "e", "n", "_", "f", "i", "l", "e", " ", "s", ".", "n", "c", " ",
      "-", "o", "c", "e", "a", "n", "_", "k", "i", "l", "l", "_", "f", "i",
      "l", "e", " ", "s", ".", "n", "c", " ", "-", "e", "x", "t", "r", "a",
      "_", "v", "a", "r", "s", " ", "t", "h", "k", ",", "m", "a", "s", "k",
      " ", "-", "o", " ", "o", "u", "t", ".", "n", "c", "\n">>

RunCommands == {RunCmd_greenland, RunCmd_other}

RunConfigs == {[hasMx |-> TRUE, Mx |-> m, My |-> m] : m \in {2, MaxM}}

RunBoots ==
    {[hasProj4 |-> TRUE, proj4 |-> p, x1 |-> x, y1 |-> Ramp(0, 1000, MaxNative)] :
        p \in {"+proj=stere", "+proj=laea"},
        x \in {Ramp(0, 1000, MaxNative), Ramp(1000, 1000, MaxNative)}}

S_nc == <<".", "n", "c">>

InitRuns ==
    /\ pc = "read"
    /\ err = "none"
    /\ command \in RunCommands
    /\ cmd = <<>>
    /\ i = 1
    /\ args = <<>>
    /\ config \in RunConfigs
    /\ boot \in RunBoots
    /\ xc = <<>> /\ yc = <<>>
    /\ name = <<>>
    /\ xb = <<>>
    /\ specFile = NoFile
    /\ gridDir = <<>>
    /\ runs = 0
    /\ margs = <<>>

\* lines 346-359: the grid file names are derived, make_pism_args is called
PrepareConfig ==
    /\ pc = "written"
    /\ pc' = "mk_start"
    /\ UNCHANGED <<err, command, cmd, i, args, config, boot, xc, yc, name, xb,
                   specFile, gridDir, runs, margs>>

HasGrid(dir, f) == \E j \in 1..Len(dir) : dir[j].fname = f

GridOf(dir, f) == dir[CHOOSE j \in 1..Len(dir) : dir[j].fname = f]

\* lines 346-349: os.path.join(grid_dir, '{}.nc'.format(pism['name'])), as
\* the leaf name within grid_dir
gridI_leaf == name \o S_nc

\* lines 365-372 and the Makefile rule of lines 47-48: make runs
\* spec_to_grid on gridI_spec.nc only when the target does not exist
MakeGrid ==
    /\ pc = "mk_done"
    /\ gridDir' = IF HasGrid(gridDir, gridI_leaf) THEN gridDir
                  ELSE Append(gridDir, [fname |-> gridI_leaf, spec |-> specFile])
    /\ runs' = runs + 1
    /\ pc' = "made"
    /\ UNCHANGED <<err, command, cmd, i, args, config, boot, xc, yc, name, xb,
                   specFile, margs>>

\* the program is run again, for another PISM state file
NewRun ==
    /\ pc = "made"
    /\ runs < MaxRuns
    /\ pc' = "read"
    /\ err' = "none"
    /\ command' \in RunCommands
    /\ config' \in RunConfigs
    /\ boot' \in RunBoots
    /\ cmd' = <<>> /\ i' = 1 /\ args' = <<>>
    /\ xc' = <<>> /\ yc' = <<>> /\ name' = <<>> /\ xb' = <<>> /\ margs' = <<>>
    /\ UNCHANGED <<specFile, gridDir, runs>>

NextRuns ==
    \/ ReadState \/ ParseStep \/ ParseEnd \/ LocateBootstrap
    \/ ReadBootstrap \/ ResampleCenters \/ NameGrid
    \/ OpenSpec \/ WriteX \/ WriteY \/ CreateInfo \/ SetInfoAttr \/ CloseSpec
    \/ WriteFails
    \/ PrepareConfig \/ DeleteBootstrapOnly \/ AbsolutizePath \/ ExtendExtraVars
    \/ MakeGrid \/ NewRun

SpecRuns == InitRuns /\ [][NextRuns]_vars

\* C8: the canonical name identifies the grid: the grid file that carries
\* this run's canonical name was generated from this run's grid (same
\* boundaries, spatial reference, index order and counts), so skip-if-exists
\* never reuses a file made for a different grid.
C8_NameIdentifiesGrid ==
    pc = "made" =>
        /\ HasGrid(gridDir, gridI_leaf)
        /\ GridOf(gridDir, gridI_leaf).spec = specFile

====
